---- MODULE Spec2Model ----
(***************************************************************************)
(* State-machine model of the fake-frog temperature logger                *)
(* (src/src/main.cpp): setup(), loop(), the SD card medium with its two    *)
(* files, the log sink, the sampling cycle and the loop's pacing.          *)
(***************************************************************************)
EXTENDS Integers, Sequences, FiniteSets, TLC

\* ------------------------------------------------------------------------
\* Compile-time settings and constants of main.cpp
\* ------------------------------------------------------------------------
NUM_SAMPLES == 20
SAMPLE_DELAY == 10
READING_INTERVAL == 60
NUM_THERMISTORS == 4
THERMISTOR_SERIES_RES == 10000
MAX_LOG_FILES == 1000
MAX_DATA_FILES == 1000
\* full scale of the 10-bit ADC, the literal 1023 of take_reading
ADC_FULL_SCALE == 1023
\* uint8_t holds 0..255
Uint8 == 256
\* a uint32_t is kept as two 16-bit halves, [hi, lo], value hi * 65536 + lo
Half == 65536

U32(n) == [hi |-> n \div Half, lo |-> n % Half]
\* a + n modulo 2^32, for a uint32_t a and a number n >= 0
AddU32(a, n) ==
    LET low == a.lo + (n % Half)
    IN  [hi |-> (a.hi + (n \div Half) + (low \div Half)) % Half, lo |-> low % Half]
\* a - b modulo 2^32, for two uint32_t
SubU32(a, b) ==
    LET borrow == IF a.lo < b.lo THEN 1 ELSE 0
    IN  [hi |-> (a.hi + Half - b.hi - borrow) % Half, lo |-> (a.lo + Half - b.lo) % Half]
\* the number a uint32_t holds (a.hi below 32768)
ValU32(a) == a.hi * Half + a.lo

\* ------------------------------------------------------------------------
\* Bounds of the model
\* ------------------------------------------------------------------------
\* number of power-cycle restarts explored
MaxRuns == 2
\* number of loop() iterations per run explored
MaxIterations == 5
\* number of different times the real-time clock is read at
MaxRtc == 2

VARIABLES
    build,                  \* the #define options the firmware was built with
    medium,                 \* SD card: file name -> durable content
    log_file,               \* File handle (valid, name, unflushed bytes)
    data_file,              \* File handle (valid, name, unflushed bytes)
    pc,                     \* position of the single thread of control
    i, z,                   \* the shared 16-bit iterators
    timer,                  \* uint8_t, counts seconds
    milli_timer,            \* uint32_t, time taken by the loop
    uptime,                 \* uint32_t
    now,                    \* DateTime last read from the RTC
    formatted_timestamp,    \* char[20]
    temperature_string,     \* char[4][8]
    latest_resistance,      \* double[4]
    latest_temperature,     \* double[4]
    sample_sum,             \* history: what the sampling loop left in latest_resistance
    serial_logging_started, \* bool
    serial_out,             \* what log() has printed on the console
    serial_in,              \* characters waiting in the serial receive buffer
    entry_field,            \* which clock field the operator is asked for
    millis,                 \* the millisecond clock, uint32_t
    runs,                   \* history: number of the current run
    created,                \* history: names of the files this run created
    used_data,              \* history: data-file index created by each run
    cycles,                 \* history: sampling cycles completed in this run
    fired,                  \* history: sampling cycles started in this run
    gap_ms,                 \* history: wall-clock ms since the last cycle started
    last_gap_ms,            \* history: wall-clock ms between the last two cycle starts
    iter_ms                 \* history: wall-clock ms the last iteration lasted

vars == <<build, medium, log_file, data_file, pc, i, z, timer, milli_timer, uptime,
          now, formatted_timestamp, temperature_string, latest_resistance, sample_sum,
          latest_temperature, serial_logging_started, serial_out, serial_in,
          entry_field, millis, runs, created,
          used_data, cycles, fired, gap_ms, last_gap_ms, iter_ms>>

\* #define SERIAL_LOGGING true, #define FILE_LOGGING true: the options as
\* main.cpp sets them, and the builds the two options allow
Shipped == [serial_logging |-> TRUE, file_logging |-> TRUE]
Builds == [serial_logging : BOOLEAN, file_logging : BOOLEAN]
SERIAL_LOGGING == build.serial_logging
FILE_LOGGING == build.file_logging

\* ------------------------------------------------------------------------
\* Text: a file or the console holds a sequence of tokens
\* ------------------------------------------------------------------------
Txt(s) == [k |-> "txt", v |-> s]
NL == [k |-> "nl", v |-> ""]
Comma == Txt(",")

\* print(x) appends x; println(x) appends x and a line end
Printed(x, with_newline) == IF with_newline THEN <<x, NL>> ELSE <<x>>

\* the literal "Timestamp,Temp1,Temp2,Temp3,Temp4" of setup, by its fields
HeaderText == <<Txt("Timestamp"), Comma, Txt("Temp1"), Comma, Txt("Temp2"), Comma, Txt("Temp3"), Comma, Txt("Temp4")>>

\* ------------------------------------------------------------------------
\* File names: char arrays, as sequences of ASCII codes
\* ------------------------------------------------------------------------
\* "log_000.txt"
LogTemplate == <<108, 111, 103, 95, 48, 48, 48, 46, 116, 120, 116>>
\* "dat_000.csv"
DataTemplate == <<100, 97, 116, 95, 48, 48, 48, 46, 99, 115, 118>>

\* variant: the tens digit is idx / 10, not reduced modulo 10
SlotNameTensUnreduced(template, idx) == [template EXCEPT ![5] = ((idx \div 100) + 48) % 256, ![6] = ((idx \div 10) + 48) % 256, ![7] = ((idx % 10) + 48) % 256]

\* name[4] = i / 100 + 48; name[5] = i / 10 % 10 + 48; name[6] = i % 10 + 48
\* (C indices 4..6 are positions 5..7 here); a char keeps the low 8 bits
SlotName(template, idx) == [template EXCEPT ![5] = ((idx \div 100) + 48) % 256, ![6] = (((idx \div 10) % 10) + 48) % 256, ![7] = ((idx % 10) + 48) % 256]

\* variants: no name is ever found; only an empty file is found
SdExistsNever(med, name) == FALSE
SdExistsEmptyOnly(med, name) == name \in DOMAIN med /\ med[name] = <<>>

\* SD.exists(name)
SdExists(med, name) == name \in DOMAIN med

\* variant: the scan goes one index further
SlotInRangeInclusive(idx, max) == idx <= max

\* the condition i < MAX_..._FILES of the two for loops that look for a slot
SlotInRange(idx, max) == idx < max

\* ------------------------------------------------------------------------
\* File handles
\* ------------------------------------------------------------------------
\* a default-constructed File: operator bool is false
NoFile == [valid |-> FALSE, name |-> <<>>, buf |-> <<>>]

\* SD.open(name, FILE_WRITE) succeeding: creates the file when absent and
\* positions at its end
OpenedFile(name) == [valid |-> TRUE, name |-> name, buf |-> <<>>]
MediumAfterOpen(med, name) == IF name \in DOMAIN med THEN med ELSE [n \in DOMAIN med \cup {name} |-> IF n \in DOMAIN med THEN med[n] ELSE <<>>]

\* variant: the bytes are written twice
FilePrintTwice(f, toks) == IF f.valid THEN [f EXCEPT !.buf = @ \o toks \o toks] ELSE f

\* file.print / file.println: buffered until the next flush
FilePrint(f, toks) == IF f.valid THEN [f EXCEPT !.buf = @ \o toks] ELSE f

\* file.flush(): the buffered bytes reach the medium
FlushedMedium(med, f) == IF f.valid THEN [med EXCEPT ![f.name] = @ \o f.buf] ELSE med
\* variant: the written bytes stay pending after a flush
FlushedFileStillPending(f) == f

FlushedFile(f) == IF f.valid THEN [f EXCEPT !.buf = <<>>] ELSE f

\* ------------------------------------------------------------------------
\* The log sink: log, log_flush, log_error
\* ------------------------------------------------------------------------
\* the part of the state log() works on
LogState == [out |-> serial_out, started |-> serial_logging_started, lf |-> log_file]

\* variant: the console copy is made only while the log file is open
LogNeedsFile(st, msg, with_newline) ==
    LET begun == IF SERIAL_LOGGING /\ ~st.started THEN st.out \o <<NL>> ELSE st.out
    IN  [out |-> IF SERIAL_LOGGING /\ st.lf.valid THEN begun \o Printed(msg, with_newline) ELSE st.out,
         started |-> IF SERIAL_LOGGING /\ st.lf.valid THEN TRUE ELSE st.started,
         lf |-> IF FILE_LOGGING /\ st.lf.valid THEN FilePrint(st.lf, Printed(msg, with_newline)) ELSE st.lf]

\* log(msg, with_newline)
Log(st, msg, with_newline) ==
    LET begun == IF SERIAL_LOGGING /\ ~st.started THEN st.out \o <<NL>> ELSE st.out
    IN  [out |-> IF SERIAL_LOGGING THEN begun \o Printed(msg, with_newline) ELSE st.out,
         started |-> IF SERIAL_LOGGING THEN TRUE ELSE st.started,
         lf |-> IF FILE_LOGGING /\ st.lf.valid THEN FilePrint(st.lf, Printed(msg, with_newline)) ELSE st.lf]

\* log_flush(): Serial.flush() and log_file.flush()
LogFlushMedium(med, st) == IF FILE_LOGGING THEN FlushedMedium(med, st.lf) ELSE med
LogFlushState(st) == IF FILE_LOGGING THEN [st EXCEPT !.lf = FlushedFile(@)] ELSE st

\* the assignments every action makes from a log state
SetLog(st) ==
    /\ serial_out' = st.out
    /\ serial_logging_started' = st.started
    /\ log_file' = st.lf

\* variants: log_error returns to its caller, which goes on with the log
\* file; which goes on with the header of the data file
LogErrorReturns(st, med, msg) ==
    LET logged == Log(st, msg, TRUE)
    IN  /\ SetLog(LogFlushState(logged))
        /\ medium' = LogFlushMedium(med, logged)
        /\ pc' = "log_setup"
LogErrorFallsThrough(st, med, msg) ==
    LET logged == Log(st, msg, TRUE)
    IN  /\ SetLog(LogFlushState(logged))
        /\ medium' = LogFlushMedium(med, logged)
        /\ pc' = "header"

\* log_error(msg): log, log_flush, while (true);
LogError(st, med, msg) ==
    LET logged == Log(st, msg, TRUE)
    IN  /\ SetLog(LogFlushState(logged))
        /\ medium' = LogFlushMedium(med, logged)
        /\ pc' = "halt"

\* ------------------------------------------------------------------------
\* Data values
\* ------------------------------------------------------------------------
RECURSIVE Gcd(_, _)
Gcd(a, b) == IF b = 0 THEN a ELSE Gcd(b, a % b)

\* a double that is an exact fraction; den = 0 is +infinity
Frac(n, d) == IF d = 0 THEN [num |-> 1, den |-> 0] ELSE [num |-> n \div Gcd(n, d), den |-> d \div Gcd(n, d)]
Zero == Frac(0, 1)

\* variant: the divider read the other way round, R = sr * (1023 / mean - 1)
ResistanceInverted(sum) ==
    IF sum = 0 THEN Frac(1, 0)
    ELSE Frac(THERMISTOR_SERIES_RES * (ADC_FULL_SCALE * NUM_SAMPLES - sum), sum)

\* R = sr / (1023 / (sum / NUM_SAMPLES) - 1), in IEEE arithmetic:
\* sum = 0 gives 1023/0 = inf and sr/inf = 0; sum = 1023*NUM_SAMPLES gives sr/0 = inf
Resistance(sum) ==
    IF sum = 0 THEN Zero
    ELSE Frac(THERMISTOR_SERIES_RES * sum, ADC_FULL_SCALE * NUM_SAMPLES - sum)

\* resistance_to_temperature(r): the Beta equation needs a logarithm, so the
\* result is kept as the term T(r); ch records which channel it was taken for
TemperatureOf(ch, r) == [ch |-> ch, kind |-> "T", r |-> r]
InitialDouble(ch) == [ch |-> ch, kind |-> "0.0", r |-> Zero]

\* dtostrf(latest_temperature[i], 5, 2, temperature_string[i])
Dtostrf(t) == [k |-> "temp", v |-> t]
\* update_formatted_timestamp(): sprintf of the fields of now
FormatTimestamp(t) == [k |-> "ts", v |-> t]

\* ------------------------------------------------------------------------
\* The environment
\* ------------------------------------------------------------------------
\* content of a file left by an earlier deployment
OldContent == <<Txt("earlier run"), NL>>

\* the name an earlier deployment gave the file with the decimal digits
\* a, b, c: "dat_abc.csv" or "log_abc.txt"
DigitTriples == (0..9) \X (0..9) \X (0..9)
TripleValue(t) == 100 * t[1] + 10 * t[2] + t[3]
NameWithDigits(template, t) == SubSeq(template, 1, 4) \o <<48 + t[1], 48 + t[2], 48 + t[3]>> \o SubSeq(template, 8, 11)

\* a medium holding the data files with the numbers D and the log files
\* with the numbers L
MediumOf(D, L) ==
    LET names == {NameWithDigits(DataTemplate, t) : t \in {u \in DigitTriples : TripleValue(u) \in D}} \cup {NameWithDigits(LogTemplate, t) : t \in {u \in DigitTriples : TripleValue(u) \in L}}
    IN  [n \in names |-> OldContent]

\* the media a first run may find: <<data indices, log indices>>
InitialLayouts == { <<{}, {}>>, <<0..5, {0}>>, <<{1, 2}, {}>>, <<0..104, {0, 1}>> }

\* the media of a card that is full or one file short of it
FullLayouts == { <<0..(MAX_DATA_FILES - 2), {}>>, <<0..(MAX_DATA_FILES - 1), {}>>, <<{}, 0..(MAX_LOG_FILES - 1)>> }

\* outcomes of SD.begin(), SD.open() and rtc.begin()
Outcomes == BOOLEAN

\* characters the operator may type at the clock prompt
SerialChars == {"y", "n"}

\* number of characters each clock field waits for: year, month, day,
\* hour, minute, second
FieldWidths == <<4, 2, 2, 2, 2, 2>>

\* analogRead levels of the four pins during a run, and the NUM_SAMPLES
\* reads of one take_reading call
PinLevel == <<200, 400, 600, 800>>
SteadySamples(pin) == { [k \in 1..NUM_SAMPLES |-> PinLevel[pin + 1]] }
SteadyReads == [c \in 0..(NUM_THERMISTORS - 1) |-> SteadySamples(c)]

\* reads of a pin that is shorted to ground, left open (full scale), or
\* drifting upwards from its level by one count per read
GroundedSamples == [k \in 1..NUM_SAMPLES |-> 0]
OpenSamples == [k \in 1..NUM_SAMPLES |-> ADC_FULL_SCALE]
DriftingSamples(pin) == [k \in 1..NUM_SAMPLES |-> PinLevel[pin + 1] + k]
VariedReads == [c \in 0..(NUM_THERMISTORS - 1) |-> {GroundedSamples, OpenSamples, DriftingSamples(c)}]

\* reads of a pin that gives level + 1 in the first n reads and level after
\* them (sum NUM_SAMPLES * level + n), and for each channel three such
\* sequences: sums next to 0, around and at half of full scale
\* (NUM_SAMPLES * 1023 / 2 = 10230), next to full scale, and in between
MixedSamples(level, n) == [k \in 1..NUM_SAMPLES |-> IF k <= n THEN level + 1 ELSE level]
DividerInputs ==
    << {<<0, 1>>, <<0, 2>>, <<511, 10>>},
       {<<511, 9>>, <<511, 10>>, <<511, 11>>},
       {<<511, 10>>, <<1022, 18>>, <<1022, 19>>},
       {<<200, 0>>, <<511, 10>>, <<800, 0>>} >>
DividerReads == [c \in 0..(NUM_THERMISTORS - 1) |-> {MixedSamples(p[1], p[2]) : p \in DividerInputs[c + 1]}]

\* time the work of an iteration takes beyond the sampling delays (ms):
\* one slow value for the runs that are followed over several power cycles,
\* a range of values for the study of the loop's pacing
WorkDurations == {29400}
PacingDurations == {400, 1400, 59000, 255000}

\* variant: one processing time is (256 - READING_INTERVAL) seconds
UnboundedDurations == {400, 58400, 196000}

\* processing times that stay below (256 - READING_INTERVAL) seconds also in
\* an iteration that samples (NUM_THERMISTORS * NUM_SAMPLES * SAMPLE_DELAY ms
\* more): 58400 ms brings timer from 0 to 59, 195199 ms adds 196 to it
BoundedDurations == {400, 58400, 195199}

\* value of millis() when setup ends
SetupDurations == {5000}

\* ------------------------------------------------------------------------
\* Initial state: power-on with zero-initialised globals
\* ------------------------------------------------------------------------
Channels == 0..(NUM_THERMISTORS - 1)

PowerOn ==
    /\ log_file = NoFile
    /\ data_file = NoFile
    /\ pc = "sd_begin"
    /\ i = 0
    /\ z = 0
    /\ timer = 0
    /\ milli_timer = U32(0)
    /\ uptime = U32(0)
    /\ now = 0
    /\ formatted_timestamp = Txt("0000-00-00T00:00:00")
    /\ temperature_string = [c \in Channels |-> Txt("")]
    /\ latest_resistance = [c \in Channels |-> Zero]
    /\ sample_sum = [c \in Channels |-> 0]
    /\ latest_temperature = [c \in Channels |-> InitialDouble(c)]
    /\ serial_logging_started = FALSE
    /\ serial_out = <<>>
    /\ serial_in = <<>>
    /\ entry_field = 0
    /\ millis = U32(0)
    /\ cycles = 0
    /\ fired = 0
    /\ gap_ms = 0
    /\ last_gap_ms = 0
    /\ iter_ms = 0

\* the rest of the state of a first run of one of builds on one of the
\* media of layouts
FirstRunOf(layouts, builds) ==
    /\ PowerOn
    /\ build \in builds
    /\ \E lay \in layouts : medium = MediumOf(lay[1], lay[2])
    /\ created = {}
    /\ runs = 1
    /\ used_data = <<>>

\* a first run of the firmware as main.cpp configures it
FirstRun(layouts) == FirstRunOf(layouts, {Shipped})

Init == FirstRun(InitialLayouts)

InitFullCard == FirstRun(FullLayouts)

\* ------------------------------------------------------------------------
\* setup()
\* ------------------------------------------------------------------------
\* what setup leaves alone until the loop starts
SetupFrame == UNCHANGED <<z, timer, milli_timer, uptime, temperature_string, latest_resistance, latest_temperature, sample_sum, runs, build, cycles, fired, gap_ms, last_gap_ms, iter_ms>>

\* variant: the log file is set up whatever FILE_LOGGING says
LogFileAlways == TRUE

\* if (FILE_LOGGING) around SET UP LOG FILE
LogFileWanted == FILE_LOGGING

\* INITIALIZE SD CARD
SdBegin ==
    /\ pc = "sd_begin"
    /\ \E ok \in Outcomes :
        LET st == Log(LogState, Txt("Initializing SD card... "), FALSE)
        IN  IF ~ok
            THEN LogError(st, medium, Txt("Failed."))
            ELSE /\ SetLog(Log(st, Txt("Done."), TRUE))
                 /\ medium' = medium
                 /\ pc' = IF LogFileWanted THEN "log_setup" ELSE "rtc_begin"
    /\ SetupFrame
    /\ created' = created
    /\ UNCHANGED <<data_file, i, now, formatted_timestamp, serial_in, entry_field, millis, used_data>>

\* SET UP LOG FILE: the message, then i = 0 of the for loop
LogSetup ==
    /\ pc = "log_setup"
    /\ SetLog(Log(LogState, Txt("Creating log file... "), FALSE))
    /\ i' = 0
    /\ pc' = "log_scan"
    /\ SetupFrame
    /\ created' = created
    /\ UNCHANGED <<medium, data_file, now, formatted_timestamp, serial_in, entry_field, millis, used_data>>

\* one pass of for (i = 0; i < MAX_LOG_FILES; i++): the name of slot i is
\* built; when it does not exist the file is opened and the loop is left.
\* Leaving the loop runs if (log_file) log("Done.") else log_error("Failed.")
LogScan ==
    /\ pc = "log_scan"
    /\ IF SlotInRange(i, MAX_LOG_FILES) /\ SdExists(medium, SlotName(LogTemplate, i))
       THEN /\ i' = i + 1
            /\ UNCHANGED <<medium, log_file, serial_out, serial_logging_started, pc, created>>
       ELSE \E ok \in Outcomes :
            LET opened == SlotInRange(i, MAX_LOG_FILES) /\ ok
                name == SlotName(LogTemplate, i)
                med == IF opened THEN MediumAfterOpen(medium, name) ELSE medium
                st == IF opened THEN [LogState EXCEPT !.lf = OpenedFile(name)] ELSE LogState
            IN  /\ i' = i
                /\ created' = created \cup (DOMAIN med \ DOMAIN medium)
                /\ IF st.lf.valid
                   THEN /\ SetLog(Log(st, Txt("Done."), TRUE))
                        /\ medium' = med
                        /\ pc' = "rtc_begin"
                   ELSE LogError(st, med, Txt("Failed."))
    /\ SetupFrame
    /\ UNCHANGED <<data_file, now, formatted_timestamp, serial_in, entry_field, millis, used_data>>

\* SET UP RTC
RtcBegin ==
    /\ pc = "rtc_begin"
    /\ \E ok \in Outcomes :
        LET st == Log(LogState, Txt("Initializing RTC... "), FALSE)
        IN  IF ~ok
            THEN LogError(st, medium, Txt("Failed."))
            ELSE /\ SetLog(Log(st, Txt("Done."), TRUE))
                 /\ medium' = medium
                 /\ pc' = IF SERIAL_LOGGING THEN "clock_prompt" ELSE "data_setup"
    /\ SetupFrame
    /\ created' = created
    /\ UNCHANGED <<data_file, i, now, formatted_timestamp, serial_in, entry_field, millis, used_data>>

\* the operator types a character while setup waits for input
SerialArrive ==
    /\ \/ pc = "clock_prompt" /\ Len(serial_in) < 1
       \/ pc = "clock_entry" /\ Len(serial_in) < FieldWidths[entry_field]
    /\ \E c \in (IF pc = "clock_prompt" THEN SerialChars ELSE {"0"}) : serial_in' = Append(serial_in, c)
    /\ UNCHANGED <<medium, log_file, data_file, pc, i, z, timer, milli_timer, uptime, now, formatted_timestamp, temperature_string, latest_resistance, latest_temperature, sample_sum, serial_logging_started, serial_out, entry_field, millis, runs, build, created, used_data, cycles, fired, gap_ms, last_gap_ms, iter_ms>>

\* variant: the busy wait is left at once
SerialNoWait(buf, n) == TRUE

\* while (Serial.available() < n); is left once n characters are buffered
SerialWait(buf, n) == ~(Len(buf) < n)

\* Serial.read(): the oldest buffered character, none when nothing is buffered
SerialRead(buf) == IF Len(buf) = 0 THEN "" ELSE Head(buf)

\* the receive buffer after Serial.read()
SerialRest(buf) == IF Len(buf) = 0 THEN buf ELSE Tail(buf)

\* "Change clock? (y/n) ": while (Serial.available() < 1); Serial.read()
ClockPrompt ==
    /\ pc = "clock_prompt"
    /\ SerialWait(serial_in, 1)
    /\ serial_in' = SerialRest(serial_in)
    /\ IF SerialRead(serial_in) = "y"
       THEN pc' = "clock_entry" /\ entry_field' = 1
       ELSE pc' = "data_setup" /\ entry_field' = 0
    /\ SetupFrame
    /\ created' = created
    /\ UNCHANGED <<medium, log_file, data_file, i, now, formatted_timestamp, serial_logging_started, serial_out, millis, used_data>>

\* "Enter Year: " ... "Enter Second: ": each field waits for its digits and
\* adds them to a local that was never initialised, so rtc.adjust() is
\* handed an arbitrary time: see AnyTime
ClockEntry ==
    /\ pc = "clock_entry"
    /\ Len(serial_in) >= FieldWidths[entry_field]
    /\ serial_in' = SubSeq(serial_in, FieldWidths[entry_field] + 1, Len(serial_in))
    /\ IF entry_field < Len(FieldWidths)
       THEN /\ entry_field' = entry_field + 1
            /\ pc' = pc
       ELSE /\ entry_field' = 0
            /\ pc' = "data_setup"
    /\ SetupFrame
    /\ created' = created
    /\ UNCHANGED <<medium, log_file, data_file, i, now, formatted_timestamp, serial_logging_started, serial_out, millis, used_data>>

\* SET UP DATA FILE: the message, then i = 0 of the for loop
DataSetup ==
    /\ pc = "data_setup"
    /\ SetLog(Log(LogState, Txt("Creating data file... "), FALSE))
    /\ i' = 0
    /\ pc' = "data_scan"
    /\ SetupFrame
    /\ created' = created
    /\ UNCHANGED <<medium, data_file, now, formatted_timestamp, serial_in, entry_field, millis, used_data>>

\* one pass of for (i = 0; i < MAX_DATA_FILES; i++), as for the log file.
\* Leaving the loop runs if (data_file) log("Done.") else log_error("Failed.")
DataScan ==
    /\ pc = "data_scan"
    /\ IF SlotInRange(i, MAX_DATA_FILES) /\ SdExists(medium, SlotName(DataTemplate, i))
       THEN /\ i' = i + 1
            /\ UNCHANGED <<medium, log_file, data_file, serial_out, serial_logging_started, pc, used_data, created>>
       ELSE \E ok \in Outcomes :
            LET opened == SlotInRange(i, MAX_DATA_FILES) /\ ok
                name == SlotName(DataTemplate, i)
                med == IF opened THEN MediumAfterOpen(medium, name) ELSE medium
            IN  /\ i' = i
                /\ created' = created \cup (DOMAIN med \ DOMAIN medium)
                /\ data_file' = IF opened THEN OpenedFile(name) ELSE data_file
                /\ used_data' = IF opened THEN Append(used_data, i) ELSE used_data
                /\ IF data_file'.valid
                   THEN /\ SetLog(Log(LogState, Txt("Done."), TRUE))
                        /\ medium' = med
                        /\ pc' = "header"
                   ELSE LogError(LogState, med, Txt("Failed."))
    /\ SetupFrame
    /\ UNCHANGED <<now, formatted_timestamp, serial_in, entry_field, millis>>

\* PRINT DATA FILE CSV HEADERS: data_file.println(...)
WriteHeader ==
    /\ pc = "header"
    /\ data_file' = FilePrint(data_file, HeaderText \o <<NL>>)
    /\ pc' = "header_flush"
    /\ SetupFrame
    /\ created' = created
    /\ UNCHANGED <<medium, log_file, i, now, formatted_timestamp, serial_logging_started, serial_out, serial_in, entry_field, millis, used_data>>

\* data_file.flush() after the header
FlushHeader ==
    /\ pc = "header_flush"
    /\ medium' = FlushedMedium(medium, data_file)
    /\ data_file' = FlushedFile(data_file)
    /\ pc' = "started"
    /\ SetupFrame
    /\ created' = created
    /\ UNCHANGED <<log_file, i, now, formatted_timestamp, serial_logging_started, serial_out, serial_in, entry_field, millis, used_data>>

\* rtc.now(): the clock runs on its own battery and setup may have set it
\* to an arbitrary time, so a read gives any time of the modelled range
\* (a time 0 is the DateTime the global now is constructed with). The runs
\* followed over several power cycles read one time only
AnyTime == 1..MaxRtc
OneTime == {1}

\* Finished everything: now = rtc.now(), the start message, log_flush()
FinishSetup(times) ==
    /\ pc = "started"
    /\ \E t \in times, m \in SetupDurations :
        LET st1 == Log(LogState, Txt("Data logger started at "), FALSE)
            st2 == Log(st1, FormatTimestamp(t), FALSE)
            st3 == Log(st2, Txt(". Software version: "), FALSE)
            st4 == Log(st3, Txt("0.1.0"), TRUE)
        IN  /\ now' = t
            /\ formatted_timestamp' = FormatTimestamp(t)
            /\ millis' = U32(m)
            /\ SetLog(LogFlushState(st4))
            /\ medium' = LogFlushMedium(medium, st4)
    /\ pc' = "loop_top"
    /\ SetupFrame
    /\ created' = created
    /\ UNCHANGED <<data_file, i, serial_in, entry_field, used_data>>

\* ------------------------------------------------------------------------
\* take_reading and save_reading_to_card
\* ------------------------------------------------------------------------
\* variant: the loop makes one pass less
RECURSIVE AccumulateOneShort(_, _, _)
AccumulateOneShort(acc, samples, idx) ==
    IF idx < NUM_SAMPLES - 1 THEN AccumulateOneShort(acc + samples[idx + 1], samples, idx + 1) ELSE acc

\* for (i = 0; i < NUM_SAMPLES; i++) latest_resistance[t] += analogRead(pin)
RECURSIVE Accumulate(_, _, _)
Accumulate(acc, samples, idx) ==
    IF idx < NUM_SAMPLES THEN Accumulate(acc + samples[idx + 1], samples, idx + 1) ELSE acc

\* variants: print instead of println for the last field; the fields in
\* the opposite channel order
DataRowUnterminated(ts, strs) == <<ts, Comma, strs[0], Comma, strs[1], Comma, strs[2], Comma>> \o Printed(strs[3], FALSE)
DataRowDescending(ts, strs) == <<ts, Comma, strs[3], Comma, strs[2], Comma, strs[1], Comma>> \o Printed(strs[0], TRUE)

\* the record save_reading_to_card prints: the timestamp, then the four
\* temperature strings, comma separated, ended by println
DataRow(ts, strs) == <<ts, Comma, strs[0], Comma, strs[1], Comma, strs[2], Comma>> \o Printed(strs[3], TRUE)

\* the message save_reading_to_card logs before it writes the record
LogReading(st, ts, strs) ==
    LET s1 == Log(st, Txt("Took reading: "), FALSE)
        s2 == Log(Log(s1, ts, FALSE), Comma, FALSE)
        s3 == Log(Log(s2, strs[0], FALSE), Comma, FALSE)
        s4 == Log(Log(s3, strs[1], FALSE), Comma, FALSE)
        s5 == Log(Log(s4, strs[2], FALSE), Comma, FALSE)
    IN  Log(s5, strs[3], TRUE)

\* ------------------------------------------------------------------------
\* loop()
\* ------------------------------------------------------------------------
\* wall-clock time passes: millis() wraps at 2^32, the history does not wrap
Elapse(ms) ==
    /\ millis' = AddU32(millis, ms)
    /\ gap_ms' = gap_ms + ms
    /\ iter_ms' = iter_ms + ms

\* milli_timer = millis(); if (timer >= READING_INTERVAL) { timer = 0; z = 0 ...
LoopTop ==
    /\ pc = "loop_top"
    /\ uptime.hi = 0 /\ uptime.lo < MaxIterations
    /\ milli_timer' = millis
    /\ iter_ms' = 0
    /\ IF timer >= READING_INTERVAL
       THEN /\ timer' = 0
            /\ z' = 0
            /\ pc' = "take"
            /\ fired' = fired + 1
            /\ last_gap_ms' = gap_ms
            /\ gap_ms' = 0
       ELSE /\ pc' = "measure"
            /\ UNCHANGED <<timer, z, fired, last_gap_ms, gap_ms>>
    /\ UNCHANGED <<medium, log_file, data_file, i, uptime, now, formatted_timestamp, temperature_string, latest_resistance, latest_temperature, sample_sum, serial_logging_started, serial_out, serial_in, entry_field, millis, runs, build, created, used_data, cycles>>

\* variant: take_reading counts its samples with z, the counter of the
\* loop that calls it
TakeReadingSharedCounter(times, reads) ==
    /\ pc = "take"
    /\ z < NUM_THERMISTORS
    /\ \E t \in {u \in times : u >= now}, samples \in reads[z] :
        LET sum == Accumulate(0, samples, 0)
        IN  /\ now' = t
            /\ latest_resistance' = [latest_resistance EXCEPT ![z] = Resistance(sum)]
            /\ sample_sum' = [sample_sum EXCEPT ![z] = sum]
            /\ latest_temperature' = [latest_temperature EXCEPT ![z] = TemperatureOf(z, Resistance(sum))]
    /\ i' = i
    /\ Elapse(NUM_SAMPLES * SAMPLE_DELAY)
    /\ z' = NUM_SAMPLES + 1
    /\ pc' = "save"
    /\ UNCHANGED <<build, medium, log_file, data_file, timer, milli_timer, uptime, formatted_timestamp, temperature_string, serial_logging_started, serial_out, serial_in, entry_field, runs, created, used_data, cycles, fired, last_gap_ms>>

\* take_reading(z); z++ of the for loop over the thermistors. reads[c] is
\* the set of sample sequences analogRead may deliver on channel c; the
\* clock, which nothing sets after setup, does not run backwards
TakeReading(times, reads) ==
    /\ pc = "take"
    /\ z < NUM_THERMISTORS
    /\ \E t \in {u \in times : u >= now}, samples \in reads[z] :
        LET sum == Accumulate(0, samples, 0)
        IN  /\ now' = t
            /\ latest_resistance' = [latest_resistance EXCEPT ![z] = Resistance(sum)]
            /\ sample_sum' = [sample_sum EXCEPT ![z] = sum]
            /\ latest_temperature' = [latest_temperature EXCEPT ![z] = TemperatureOf(z, Resistance(sum))]
    /\ i' = NUM_SAMPLES
    /\ Elapse(NUM_SAMPLES * SAMPLE_DELAY)
    /\ z' = z + 1
    /\ pc' = IF z + 1 < NUM_THERMISTORS THEN "take" ELSE "save"
    /\ UNCHANGED <<medium, log_file, data_file, timer, milli_timer, uptime, formatted_timestamp, temperature_string, serial_logging_started, serial_out, serial_in, entry_field, runs, build, created, used_data, cycles, fired, last_gap_ms>>

\* variant: the handle is not tested
FileBoolAlways(f) == TRUE

\* if (data_file): File::operator bool
FileBool(f) == f.valid

\* save_reading_to_card() up to and including the println of the record
SaveReading ==
    /\ pc = "save"
    /\ IF FileBool(data_file)
       THEN LET ts == FormatTimestamp(now)
                strs == [c \in Channels |-> Dtostrf(latest_temperature[c])]
                st == LogReading(LogState, ts, strs)
            IN  /\ formatted_timestamp' = ts
                /\ temperature_string' = strs
                /\ i' = NUM_THERMISTORS
                /\ SetLog(LogFlushState(st))
                /\ medium' = LogFlushMedium(medium, st)
                /\ data_file' = FilePrint(data_file, DataRow(ts, strs))
                /\ pc' = "save_flush"
                /\ cycles' = cycles
       ELSE /\ pc' = "measure"
            /\ cycles' = cycles + 1
            /\ UNCHANGED <<formatted_timestamp, temperature_string, i, serial_out, serial_logging_started, log_file, medium, data_file>>
    /\ UNCHANGED <<z, timer, milli_timer, uptime, now, latest_resistance, latest_temperature, sample_sum, serial_in, entry_field, millis, runs, build, created, used_data, fired, gap_ms, last_gap_ms, iter_ms>>

\* data_file.flush() at the end of save_reading_to_card
FlushReading ==
    /\ pc = "save_flush"
    /\ medium' = FlushedMedium(medium, data_file)
    /\ data_file' = FlushedFile(data_file)
    /\ cycles' = cycles + 1
    /\ pc' = "measure"
    /\ UNCHANGED <<log_file, i, z, timer, milli_timer, uptime, now, formatted_timestamp, temperature_string, latest_resistance, latest_temperature, sample_sum, serial_logging_started, serial_out, serial_in, entry_field, millis, runs, build, created, used_data, fired, gap_ms, last_gap_ms, iter_ms>>

\* the buttons are polled, then milli_timer = millis() - milli_timer
\* (unsigned 32-bit subtraction)
Measure(durations) ==
    /\ pc = "measure"
    /\ \E work \in durations :
        /\ Elapse(work)
        /\ milli_timer' = SubU32(millis', milli_timer)
    /\ pc' = "pace"
    /\ UNCHANGED <<medium, log_file, data_file, i, z, timer, uptime, now, formatted_timestamp, temperature_string, latest_resistance, latest_temperature, sample_sum, serial_logging_started, serial_out, serial_in, entry_field, runs, build, created, used_data, cycles, fired, last_gap_ms>>

\* while (milli_timer >= 1000) { timer++; milli_timer -= 1000; }
\* The loop makes milli_timer / 1000 passes and leaves milli_timer % 1000;
\* with milli_timer = hi * 65536 + lo both are computed from the halves
OverrunPasses(m) == m.hi * (Half \div 1000) + (m.hi * (Half % 1000) + m.lo) \div 1000
\* variant: while (milli_timer > 1000)
OverrunRestStrict(m) == IF (m.hi * (Half % 1000) + m.lo) % 1000 = 0 /\ (m.hi > 0 \/ m.lo >= 1000) THEN 1000 ELSE (m.hi * (Half % 1000) + m.lo) % 1000
OverrunRest(m) == (m.hi * (Half % 1000) + m.lo) % 1000
Overrun(t, m) == [timer |-> (t + OverrunPasses(m)) % Uint8, milli_timer |-> U32(OverrunRest(m))]

\* the overrun loop, timer++, uptime++, delay(1000 - milli_timer)
Pace ==
    /\ pc = "pace"
    /\ LET o == Overrun(timer, milli_timer)
       IN  /\ timer' = (o.timer + 1) % Uint8
           /\ milli_timer' = o.milli_timer
           /\ uptime' = AddU32(uptime, 1)
           /\ Elapse(ValU32(SubU32(U32(1000), o.milli_timer)))
    /\ pc' = "loop_top"
    /\ UNCHANGED <<medium, log_file, data_file, i, z, now, formatted_timestamp, temperature_string, latest_resistance, latest_temperature, sample_sum, serial_logging_started, serial_out, serial_in, entry_field, runs, build, created, used_data, cycles, fired, last_gap_ms>>

\* ------------------------------------------------------------------------
\* Power is lost and restored: RAM and unflushed bytes are gone, the medium
\* stays, setup runs again from the start
\* ------------------------------------------------------------------------
PowerCycle ==
    /\ runs < MaxRuns
    /\ runs' = runs + 1
    /\ created' = {}
    /\ log_file' = NoFile
    /\ data_file' = NoFile
    /\ pc' = "sd_begin"
    /\ i' = 0
    /\ z' = 0
    /\ timer' = 0
    /\ milli_timer' = U32(0)
    /\ uptime' = U32(0)
    /\ now' = 0
    /\ formatted_timestamp' = Txt("0000-00-00T00:00:00")
    /\ temperature_string' = [c \in Channels |-> Txt("")]
    /\ latest_resistance' = [c \in Channels |-> Zero]
    /\ sample_sum' = [c \in Channels |-> 0]
    /\ latest_temperature' = [c \in Channels |-> InitialDouble(c)]
    /\ serial_logging_started' = FALSE
    /\ serial_out' = <<>>
    /\ serial_in' = <<>>
    /\ entry_field' = 0
    /\ millis' = U32(0)
    /\ cycles' = 0
    /\ fired' = 0
    /\ gap_ms' = 0
    /\ last_gap_ms' = 0
    /\ iter_ms' = 0
    /\ UNCHANGED <<build, medium, used_data>>

\* the steps of setup() and loop(), the iteration's work taking one of
\* durations, the clock being read at one of times and the pins delivering
\* one of reads
Program(durations, times, reads) ==
    \/ SdBegin
    \/ LogSetup
    \/ LogScan
    \/ RtcBegin
    \/ SerialArrive
    \/ ClockPrompt
    \/ ClockEntry
    \/ DataSetup
    \/ DataScan
    \/ WriteHeader
    \/ FlushHeader
    \/ FinishSetup(times)
    \/ LoopTop
    \/ TakeReading(times, reads)
    \/ SaveReading
    \/ FlushReading
    \/ Measure(durations)
    \/ Pace

Next == Program(WorkDurations, OneTime, SteadyReads) \/ PowerCycle

\* the logger over several power cycles
Spec == Init /\ [][Next]_vars

\* one run started on a card that is full or one file short of it
NextFullCard == Program(WorkDurations, OneTime, SteadyReads)
SpecFullCard == InitFullCard /\ [][NextFullCard]_vars

\* one run on an empty card, its iterations taking any of PacingDurations
InitPacing == FirstRun({<<{}, {}>>})
NextPacing == Program(PacingDurations, AnyTime, SteadyReads)
SpecPacing == InitPacing /\ [][NextPacing]_vars

\* one run of each of the four builds, on an empty card and on a card
\* that holds one file of each role
InitBuilds == FirstRunOf({<<{}, {}>>, <<{0}, {0}>>}, Builds)
NextBuilds == Program(WorkDurations, OneTime, SteadyReads)
SpecBuilds == InitBuilds /\ [][NextBuilds]_vars

\* one run on an empty card, the pins delivering any of VariedReads
NextSampling == Program(WorkDurations, OneTime, VariedReads)
SpecSampling == InitPacing /\ [][NextSampling]_vars

\* the shipped build with the pins read around the ends and the middle of
\* the converter's range
NextDivider == Program(WorkDurations, OneTime, DividerReads)
SpecDivider == InitPacing /\ [][NextDivider]_vars

\* the shipped build with every iteration shorter than 196 s
NextBounded == Program(BoundedDurations, OneTime, SteadyReads)
SpecBounded == InitPacing /\ [][NextBounded]_vars

\* loop() and the functions it calls, started from the state setup leaves
\* with a reading due, the handle data_file being either a file with its
\* header or a File that is not open (the input save_reading_to_card
\* tests for; setup itself halts rather than leave it so)
InitLoopCalls ==
    /\ build = Shipped
    /\ log_file = OpenedFile(LogTemplate)
    /\ data_file \in {NoFile, OpenedFile(DataTemplate)}
    /\ medium = [n \in {LogTemplate} \cup (IF data_file.valid THEN {DataTemplate} ELSE {}) |-> IF n = LogTemplate THEN <<Txt("Done."), NL>> ELSE HeaderText \o <<NL>>]
    /\ created = DOMAIN medium
    /\ used_data = <<>>
    /\ runs = 1
    /\ pc = "loop_top"
    /\ i = 0
    /\ z = 0
    /\ timer = READING_INTERVAL
    /\ milli_timer = U32(0)
    /\ uptime = U32(0)
    /\ now = 1
    /\ formatted_timestamp = FormatTimestamp(1)
    /\ temperature_string = [c \in Channels |-> Txt("")]
    /\ latest_resistance = [c \in Channels |-> Zero]
    /\ sample_sum = [c \in Channels |-> 0]
    /\ latest_temperature = [c \in Channels |-> InitialDouble(c)]
    /\ serial_logging_started = TRUE
    /\ serial_out = <<NL, Txt("Done."), NL>>
    /\ serial_in = <<>>
    /\ entry_field = 0
    /\ \E m \in SetupDurations : millis = U32(m)
    /\ cycles = 0
    /\ fired = 0
    /\ gap_ms = 0
    /\ last_gap_ms = 0
    /\ iter_ms = 0
NextLoopCalls ==
    \/ LoopTop
    \/ TakeReading(AnyTime, SteadyReads)
    \/ SaveReading
    \/ FlushReading
    \/ Measure(PacingDurations)
    \/ Pace
SpecLoopCalls == InitLoopCalls /\ [][NextLoopCalls]_vars

\* ------------------------------------------------------------------------
\* Reading files back
\* ------------------------------------------------------------------------
\* equality of two tokens
SameToken(a, b) == a.k = b.k /\ a.v = b.v
IsComma(t) == t.k = "txt" /\ t.v = ","

\* the lines of a text: positions of the line ends, and the tokens between
LineEnds(toks) == {k \in DOMAIN toks : toks[k].k = "nl"}
LineCount(toks) == Cardinality(LineEnds(toks))
LineEnd(toks, j) == CHOOSE k \in LineEnds(toks) : Cardinality({m \in LineEnds(toks) : m <= k}) = j
LineOf(toks, j) == SubSeq(toks, IF j = 1 THEN 1 ELSE LineEnd(toks, j - 1) + 1, LineEnd(toks, j) - 1)
SameLine(a, b) == Len(a) = Len(b) /\ \A k \in DOMAIN a : SameToken(a[k], b[k])

\* the fields of a comma separated line
IsCsvLine(line) == Len(line) % 2 = 1 /\ \A k \in DOMAIN line : IsComma(line[k]) <=> (k % 2 = 0)
FieldCount(line) == (Len(line) + 1) \div 2
FieldOf(line, f) == line[2 * f - 1]

\* what the run's data file holds on the medium, and with its unflushed bytes
DataOnMedium == medium[data_file.name]
DataWritten == medium[data_file.name] \o data_file.buf
HeaderLines(toks) == {j \in 1..LineCount(toks) : SameLine(LineOf(toks, j), HeaderText)}

\* names that were on the medium when the run started
Preexisting == DOMAIN medium \ created

\* "dat_" three decimal digits ".csv", and the number the digits spell
IsDataName(name) ==
    /\ Len(name) = Len(DataTemplate)
    /\ \A k \in (1..4) \cup (8..11) : name[k] = DataTemplate[k]
    /\ \A k \in 5..7 : name[k] \in 48..57
DecimalOf(name) == 100 * (name[5] - 48) + 10 * (name[6] - 48) + (name[7] - 48)
PreexistingData == {DecimalOf(n) : n \in {m \in Preexisting : IsDataName(m)}}

\* "log_" three decimal digits ".txt"
IsLogName(name) ==
    /\ Len(name) = Len(LogTemplate)
    /\ \A k \in (1..4) \cup (8..11) : name[k] = LogTemplate[k]
    /\ \A k \in 5..7 : name[k] \in 48..57

\* what has been written to the log file of the run, flushed or not
LogWritten(f, med) == IF f.valid THEN med[f.name] \o f.buf ELSE <<>>

\* what a text has gained when old has become new
IsExtension(old, new) == Len(old) <= Len(new) /\ SameLine(SubSeq(new, 1, Len(old)), old)
Added(old, new) == SubSeq(new, Len(old) + 1, Len(new))

\* the last complete line of a text
LastLine(toks) == LineOf(toks, LineCount(toks))

\* the messages that open the steps of setup that can fail, in the order
\* of setup
SetupStages == <<"Initializing SD card... ">> \o (IF FILE_LOGGING THEN <<"Creating log file... ">> ELSE <<>>) \o <<"Initializing RTC... ", "Creating data file... ">>

\* the arithmetic mean of the first n of some reads, as a fraction, and the
\* resistance sr / (1023 / mean - 1) of a mean a / b: sr * a / (1023 * b - a)
RECURSIVE TotalOf(_, _)
TotalOf(samples, n) == IF n = 0 THEN 0 ELSE samples[n] + TotalOf(samples, n - 1)
MeanOf(samples, n) == Frac(TotalOf(samples, n), n)
ResistanceOfMean(mean) == IF mean.num = 0 THEN Zero ELSE Frac(THERMISTOR_SERIES_RES * mean.num, ADC_FULL_SCALE * mean.den - mean.num)

\* positions of the program
SetupPcs == {"sd_begin", "log_setup", "log_scan", "rtc_begin", "clock_prompt", "clock_entry", "data_setup", "data_scan", "header", "header_flush", "started"}
LoopPcs == {"loop_top", "take", "save", "save_flush", "measure", "pace"}

\* ------------------------------------------------------------------------
\* Claims
\* ------------------------------------------------------------------------

\* C1: a file handle becomes valid only on a name that was not on the medium
\* immediately before, the open handles are files this run created, and no
\* step removes, truncates or changes a file other than those this run
\* created.
C1_OnlyFreshFilesOpened ==
    [][ /\ (data_file'.valid /\ ~data_file.valid) => data_file'.name \notin DOMAIN medium
        /\ (log_file'.valid /\ ~log_file.valid) => log_file'.name \notin DOMAIN medium
        /\ data_file'.valid => data_file'.name \in created'
        /\ log_file'.valid => log_file'.name \in created'
        /\ \A n \in DOMAIN medium : n \in DOMAIN medium' /\ (n \notin created' => medium'[n] = medium[n])
      ]_vars

\* C1 witness: a second run has opened its data file on a medium that held
\* the files of the first run.
C1_Witness == runs = 2 /\ data_file.valid /\ Len(used_data) = 2 /\ Cardinality(Preexisting) >= 2

\* C2: the data file a run opens is named dat_NNN.csv, NNN being the
\* zero-padded decimal of the smallest number whose data file name was not
\* on the medium when the run started: the name is absent and every smaller
\* number is taken.
C2_SmallestFreeSlot ==
    data_file.valid =>
        LET taken == PreexistingData
        IN  /\ IsDataName(data_file.name)
            /\ DecimalOf(data_file.name) \notin taken
            /\ \A j \in 0..(DecimalOf(data_file.name) - 1) : j \in taken
            /\ pc = "header" => DecimalOf(data_file.name) = i

\* C2 witness: with dat_000..dat_104 present the run opened dat_105.csv.
C2_Witness == data_file.valid /\ data_file.name = <<100, 97, 116, 95, 49, 48, 53, 46, 99, 115, 118>> /\ runs = 1

\* C3: when all 1000 data file names exist at startup, the run never gets
\* past the scan: no data file is opened, no header is written, loop is not
\* entered, every file keeps its content, and the run ends halted with
\* "Failed." as the last line of the console.
C3_FullCardHalts ==
    (PreexistingData = 0..(MAX_DATA_FILES - 1)) =>
        /\ ~data_file.valid
        /\ pc \in {"sd_begin", "log_setup", "log_scan", "rtc_begin", "clock_prompt", "clock_entry", "data_setup", "data_scan", "halt"}
        /\ \A n \in Preexisting : medium[n] = OldContent
        /\ pc = "halt" => (LineCount(serial_out) >= 1 /\ SameLine(<<LineOf(serial_out, LineCount(serial_out))[Len(LineOf(serial_out, LineCount(serial_out)))]>>, <<Txt("Failed.")>>))

\* C3 witness: the scan went through all 1000 names and the run halted.
C3_Witness == pc = "halt" /\ i = MAX_DATA_FILES /\ PreexistingData = 0..(MAX_DATA_FILES - 1)

\* C4: the data-file numbers the successive runs created are strictly
\* increasing.
C4_IndicesIncrease == \A a, b \in DOMAIN used_data : a < b => used_data[a] < used_data[b]

\* C4 witness: two runs each created a data file.
C4_Witness == Len(used_data) = 2 /\ runs = 2 /\ pc \in LoopPcs

\* C5: an iteration whose measured processing duration is p ms adds
\* floor(p/1000)+1 to timer and lasts (floor(p/1000)+1)*1000 ms, so that at
\* the start of every iteration timer is the number of seconds since the
\* last reset.
C5_TimerCountsSeconds ==
    [][ (pc = "pace" /\ pc' = "loop_top") =>
            /\ timer' = timer + ValU32(milli_timer) \div 1000 + 1
            /\ iter_ms' = (ValU32(milli_timer) \div 1000 + 1) * 1000
            /\ timer' * 1000 = gap_ms'
      ]_vars

\* C6: two consecutive sampling cycles start exactly READING_INTERVAL
\* seconds of wall-clock time apart.
C6_IntervalExact == fired >= 2 => last_gap_ms = READING_INTERVAL * 1000

\* C7: between iterations the data file holds, after its header, one line
\* per sampling cycle of the run, and every cycle started has completed.
C7_OneLinePerCycle ==
    pc = "loop_top" => (LineCount(DataOnMedium) = 1 + cycles /\ cycles = fired /\ data_file.buf = <<>>)

\* C7 witness: two cycles and an iteration that did not fire have completed.
C7_Witness == pc = "loop_top" /\ cycles = 2 /\ uptime.lo >= 3 /\ timer < READING_INTERVAL

\* C8 as stated: in every state the open data file holds the header exactly
\* once, as its first line.
C8_HeaderInEveryState == data_file.valid => HeaderLines(DataWritten) = {1}

\* C8 amended: once setup has printed the header, the data file (flushed
\* and unflushed bytes) holds it exactly once, as its first line, and once
\* setup has flushed it so does the file on the medium; before that the
\* new file is empty.
C8_HeaderOnceFirst ==
    data_file.valid =>
        /\ IF pc = "header" THEN DataWritten = <<>> ELSE HeaderLines(DataWritten) = {1}
        /\ IF pc \in {"header", "header_flush"} THEN DataOnMedium = <<>> ELSE HeaderLines(DataOnMedium) = {1}

\* C8 witness: a record follows the header.
C8_Witness == data_file.valid /\ cycles >= 1 /\ LineCount(DataOnMedium) >= 2

\* C9: every line after the header is the cycle's timestamp followed by
\* the NUM_THERMISTORS temperatures of channels 0, 1, ... in this order,
\* comma separated, as many fields as the header names; the record just
\* printed holds the values of this cycle, and after one cycle the file
\* holds two lines.
C9_RecordShape ==
    data_file.valid /\ pc \in LoopPcs =>
        /\ IsCsvLine(HeaderText) /\ FieldCount(HeaderText) = NUM_THERMISTORS + 1
        /\ \A j \in 2..LineCount(DataWritten) :
            LET line == LineOf(DataWritten, j)
            IN  /\ IsCsvLine(line)
                /\ FieldCount(line) = FieldCount(LineOf(DataWritten, 1))
                /\ FieldOf(line, 1).k = "ts"
                /\ \A c \in Channels : FieldOf(line, c + 2).k = "temp" /\ FieldOf(line, c + 2).v.ch = c /\ FieldOf(line, c + 2).v.kind = "T"
        /\ pc = "save_flush" =>
            LET last == LineOf(DataWritten, LineCount(DataWritten))
            IN  /\ LineCount(DataWritten) = 1 + fired
                /\ FieldOf(last, 1).v = now
                /\ \A c \in Channels : FieldOf(last, c + 2).v = latest_temperature[c]
        /\ (cycles = 1 /\ fired = 1) => LineCount(DataWritten) = 2

\* C9 witness: the record of a second cycle has been printed.
C9_Witness == pc = "save_flush" /\ fired = 2 /\ now = 2

\* C10: outside the two print-then-flush steps nothing written to the data
\* file is unflushed, and at no time is more than one line unflushed: a
\* power loss takes at most the line being written.
C10_FlushedPerRecord ==
    data_file.valid =>
        /\ pc \notin {"header_flush", "save_flush"} => data_file.buf = <<>>
        /\ LineCount(data_file.buf) <= 1
        /\ LineCount(DataOnMedium) >= LineCount(DataWritten) - 1

\* C10 witness: a record is printed and not yet flushed while an earlier
\* record is on the medium.
C10_Witness == pc = "save_flush" /\ LineCount(data_file.buf) = 1 /\ LineCount(DataOnMedium) = 2

\* C11: the step that runs SD.begin either succeeds and goes on, or (the
\* failure) leaves "Initializing SD card... Failed." as the last line of
\* the console and the run halted with no file created and no handle open;
\* a halted run takes no further step, so it creates no file, writes no
\* record and never enters loop.
C11_SdFailureHalts ==
    [][ /\ (pc = "sd_begin" /\ runs' = runs) =>
            \/ /\ pc' \in {"log_setup", "rtc_begin"}
               /\ SameLine(LastLine(serial_out'), <<Txt("Initializing SD card... "), Txt("Done.")>>)
            \/ /\ pc' = "halt"
               /\ SameLine(LastLine(serial_out'), <<Txt("Initializing SD card... "), Txt("Failed.")>>)
               /\ medium' = medium /\ created' = {}
               /\ ~log_file'.valid /\ ~data_file'.valid
        /\ (pc = "halt" /\ runs' = runs) => UNCHANGED vars
      ]_vars

\* C11 witness: the second run, on a card that holds the files of the
\* first, halted at SD.begin.
C11_Witness == pc = "halt" /\ runs = 2 /\ Len(used_data) = 1 /\ created = {} /\ SameLine(LastLine(serial_out), <<Txt("Initializing SD card... "), Txt("Failed.")>>)

\* C12: in every state of loop the run has created exactly its data file
\* and, when FILE_LOGGING, its log file, both open; during loop no file
\* appears on the medium and neither handle changes its file; when
\* FILE_LOGGING is false the log handle is never opened and no step
\* changes any file but the data file.
C12_FilesCreatedOnce ==
    [][ /\ pc' \in LoopPcs =>
            /\ data_file'.valid /\ IsDataName(data_file'.name)
            /\ IF FILE_LOGGING
               THEN log_file'.valid /\ IsLogName(log_file'.name) /\ created' = {data_file'.name, log_file'.name}
               ELSE created' = {data_file'.name}
        /\ pc \in LoopPcs =>
            /\ created' = created /\ DOMAIN medium' = DOMAIN medium
            /\ data_file'.valid = data_file.valid /\ data_file'.name = data_file.name
            /\ log_file'.valid = log_file.valid /\ log_file'.name = log_file.name
        /\ ~FILE_LOGGING =>
            /\ ~log_file'.valid
            /\ \A n \in DOMAIN medium' : n # data_file'.name => (n \in DOMAIN medium /\ medium'[n] = medium[n])
      ]_vars

\* C12 witness: a build without file logging has completed two cycles on
\* a card that held a data file and a log file.
C12_Witness == ~FILE_LOGGING /\ pc = "loop_top" /\ cycles = 2 /\ Cardinality(DOMAIN medium) = 3 /\ Cardinality(created) = 1

\* C13: in every step the console and the log file only grow; what the
\* log file gains is what the console gains (after the empty line that
\* opens the console) when both sinks are enabled and the handle is valid;
\* the log file gains nothing when FILE_LOGGING is off or the handle is
\* invalid, the console nothing when SERIAL_LOGGING is off. The messages
\* of the RTC step reach each enabled sink whatever the other is, and the
\* messages of the SD step, logged before any log file is open, reach the
\* console.
C13_LogSinksIndependent ==
    [][ LET c == Added(serial_out, serial_out')
            m == IF ~serial_logging_started /\ Len(c) > 0 THEN Tail(c) ELSE c
            f == Added(LogWritten(log_file, medium), LogWritten(log_file', medium'))
        IN  /\ IsExtension(serial_out, serial_out')
            /\ IsExtension(LogWritten(log_file, medium), LogWritten(log_file', medium'))
            /\ ~SERIAL_LOGGING => Len(serial_out') = 0
            /\ (~FILE_LOGGING \/ ~log_file'.valid) => Len(LogWritten(log_file', medium')) = 0
            /\ (SERIAL_LOGGING /\ FILE_LOGGING /\ log_file'.valid) => SameLine(f, m)
            /\ pc = "rtc_begin" =>
                \E r \in {"Done.", "Failed."} :
                    /\ SERIAL_LOGGING => SameLine(m, <<Txt("Initializing RTC... "), Txt(r), NL>>)
                    /\ (FILE_LOGGING /\ log_file.valid) => SameLine(f, <<Txt("Initializing RTC... "), Txt(r), NL>>)
            /\ (pc = "sd_begin" /\ SERIAL_LOGGING) =>
                \E r \in {"Done.", "Failed."} : SameLine(m, <<Txt("Initializing SD card... "), Txt(r), NL>>)
      ]_vars

\* C13 witness: both sinks are enabled and the console holds more than the
\* log file, which was opened after the first messages.
C13_Witness == SERIAL_LOGGING /\ FILE_LOGGING /\ pc = "loop_top" /\ cycles = 1 /\ Len(LogWritten(log_file, medium)) > 0 /\ Len(serial_out) > Len(LogWritten(log_file, medium)) + 1

\* C14: the step that runs save_reading_to_card with a data file handle
\* that is not open changes no file, neither handle, nothing on the
\* console, and neither timer, milli_timer nor uptime; loop goes on, so
\* every cycle started is completed and later cycles are started.
C14_InvalidHandleDropsReading ==
    [][ /\ (pc = "save" /\ ~data_file.valid) =>
            /\ medium' = medium /\ data_file' = data_file /\ log_file' = log_file
            /\ serial_out' = serial_out
            /\ timer' = timer /\ milli_timer' = milli_timer /\ uptime' = uptime
            /\ pc' = "measure"
        /\ (~data_file'.valid /\ pc' = "loop_top") => (cycles' = fired' /\ DOMAIN medium' = {LogTemplate})
      ]_vars

\* C14 witness: two cycles ran with the handle not open.
C14_Witness == ~data_file.valid /\ pc = "loop_top" /\ fired = 2 /\ cycles = 2 /\ latest_temperature[0].kind = "T"

\* C15: whenever the run is in loop the data file is open and, when
\* FILE_LOGGING, so is the log file (each handle is open from the step
\* after its creation on); the console shows the steps SD card, log file
\* (when FILE_LOGGING), RTC, data file, each "Done.", in this order and no
\* "Failed."; a halted run shows "Failed." as its last message.
C15_LoopOnlyAfterSetupSucceeded ==
    /\ pc \in LoopPcs \cup {"header", "header_flush", "started"} => data_file.valid
    /\ (FILE_LOGGING /\ pc \in (LoopPcs \cup SetupPcs) \ {"sd_begin", "log_setup", "log_scan"}) => log_file.valid
    /\ (SERIAL_LOGGING /\ pc \in LoopPcs) =>
        /\ \A j \in DOMAIN SetupStages : SameLine(LineOf(serial_out, j + 1), <<Txt(SetupStages[j]), Txt("Done.")>>)
        /\ \A k \in DOMAIN serial_out : ~SameToken(serial_out[k], Txt("Failed."))
    /\ (SERIAL_LOGGING /\ pc = "halt") =>
        /\ Len(LastLine(serial_out)) = 2 /\ SameToken(LastLine(serial_out)[2], Txt("Failed."))
        /\ \E j \in DOMAIN SetupStages :
            /\ LineCount(serial_out) = j + 1
            /\ SameToken(LastLine(serial_out)[1], Txt(SetupStages[j]))
            /\ \A h \in 1..(j - 1) : SameLine(LineOf(serial_out, h + 1), <<Txt(SetupStages[h]), Txt("Done.")>>)

\* C15 witness: a sampling cycle is running in the build of main.cpp.
C15_Witness == pc = "take" /\ z = 2 /\ FILE_LOGGING /\ SERIAL_LOGGING /\ log_file.valid /\ data_file.valid

\* C16: within a sampling cycle the clock is read once, at its start: the
\* calls of take_reading for the channels after the first leave now as
\* they found it, so the record carries the time the cycle started at.
C16_TimestampReadOnce == [][ (pc = "take" /\ z > 0) => now' = now ]_vars

\* C17: a cycle starts with z = 0; each call of take_reading samples
\* channel z and no other, leaves only i changed among the counters, and
\* is followed by z + 1; save_reading_to_card is reached from the call for
\* the last channel only, with z = NUM_THERMISTORS, and does not move z.
C17_EachChannelOnceInOrder ==
    [][ /\ (pc = "loop_top" /\ pc' = "take") => z' = 0
        /\ pc = "take" =>
            /\ z \in Channels /\ z' = z + 1 /\ i' = NUM_SAMPLES
            /\ latest_temperature'[z].ch = z /\ latest_temperature'[z].kind = "T"
            /\ \A c \in Channels \ {z} : latest_temperature'[c] = latest_temperature[c] /\ latest_resistance'[c] = latest_resistance[c]
            /\ pc' = IF z = NUM_THERMISTORS - 1 THEN "save" ELSE "take"
        /\ pc' = "save" => (pc = "take" /\ z' = NUM_THERMISTORS)
        /\ pc = "save" => (z = NUM_THERMISTORS /\ z' = z /\ i' = NUM_THERMISTORS)
      ]_vars

\* C17 witness: the four channels of a second cycle have been sampled,
\* with different reads, and the record is about to be written.
C17_Witness == pc = "save" /\ z = NUM_THERMISTORS /\ fired = 2 /\ latest_resistance[0] # latest_resistance[1] /\ latest_resistance[2].den = 0

\* C18: a call of take_reading for channel z lasts NUM_SAMPLES sample
\* delays and leaves in latest_resistance[z] the resistance of the
\* arithmetic mean of NUM_SAMPLES reads that channel z can deliver during
\* this call, whatever the value left by an earlier cycle, and in
\* latest_temperature[z] the temperature of that resistance.
C18_MeanOfThisCyclesSamples ==
    [][ pc = "take" =>
            /\ latest_resistance'[z] \in {ResistanceOfMean(MeanOf(s, NUM_SAMPLES)) : s \in VariedReads[z]}
            /\ latest_temperature'[z] = TemperatureOf(z, latest_resistance'[z])
            /\ ValU32(SubU32(millis', millis)) = NUM_SAMPLES * SAMPLE_DELAY
            /\ i' = NUM_SAMPLES
      ]_vars

\* C18 witness: in the second cycle channel 0 has given the mean of its
\* drifting reads, the first cycle having recorded a grounded channel 0.
C18_Witness == pc = "save" /\ fired = 2 /\ latest_resistance[0] = ResistanceOfMean(MeanOf(DriftingSamples(0), NUM_SAMPLES)) /\ FieldOf(LineOf(DataOnMedium, 2), 2).v.r = Zero

\* C19: no channel's resistance is ever computed from a raw mean of 0
\* (which gives resistance 0 through a division by zero) or of full scale
\* (which makes the divisor 1023 / mean - 1 zero and the resistance
\* infinite).
C19_DivisorsNeverZero ==
    \A c \in Channels : latest_temperature[c].kind = "T" => (latest_resistance[c].num # 0 /\ latest_resistance[c].den # 0)

\* C20: the delay that ends an iteration lasts between 1 and 1000 ms: it
\* is 1000 minus what the overrun loop left in milli_timer, which is below
\* 1000; a processing time that is a whole number of seconds is followed
\* by a delay of 1000 ms.
C20_DelayWithinOneSecond ==
    [][ pc = "pace" =>
            LET d == ValU32(SubU32(millis', millis))
            IN  /\ d \in 1..1000
                /\ milli_timer'.hi = 0 /\ milli_timer'.lo < 1000
                /\ d = 1000 - milli_timer'.lo
                /\ milli_timer'.lo = ValU32(milli_timer) % 1000
                /\ ValU32(milli_timer) % 1000 = 0 => d = 1000
      ]_vars

\* C20 witness: an iteration whose processing took exactly 59 s has slept
\* for a full second.
C20_Witness == pc = "loop_top" /\ uptime.lo >= 1 /\ iter_ms = 60000 /\ milli_timer = U32(0)

\* ------------------------------------------------------------------------
\* C21: with serial logging enabled, setup stays in the clock prompt, with
\* nothing written or created, for as long as no character has arrived;
\* SET UP DATA FILE is entered only from the clock dialogue and only by a
\* step that consumes a buffered character; and until then there is no data
\* file, no data file was created and the loop has not begun, so a run in
\* which no input arrives never writes a record
\* ------------------------------------------------------------------------
BeforeDataFile == {"sd_begin", "log_setup", "log_scan", "rtc_begin", "clock_prompt", "clock_entry"}

C21_PromptBlocksSetup ==
    [][SERIAL_LOGGING =>
        /\ (pc = "clock_prompt" /\ Len(serial_in) < 1) =>
              /\ pc' = "clock_prompt"
              /\ medium' = medium
              /\ data_file' = data_file
              /\ log_file' = log_file
              /\ serial_out' = serial_out
        /\ (pc # "data_setup" /\ pc' = "data_setup") =>
              /\ pc \in {"clock_prompt", "clock_entry"}
              /\ Len(serial_in) >= 1
              /\ Len(serial_in') < Len(serial_in)
        /\ pc \in BeforeDataFile =>
              /\ ~data_file.valid
              /\ used_data = <<>>
              /\ \A f \in created : ~IsDataName(f)
              /\ cycles = 0
        /\ pc' \in LoopPcs => pc \notin BeforeDataFile
    ]_vars

\* setup is waiting at the prompt of a build with serial logging: storage
\* and clock have initialised, nothing was typed, no data file exists
C21_Witness ==
    /\ SERIAL_LOGGING
    /\ pc = "clock_prompt"
    /\ serial_in = <<>>
    /\ ~data_file.valid
    /\ FILE_LOGGING => log_file.valid

\* ------------------------------------------------------------------------
\* C22: when every iteration's measured processing time is below
\* (256 - READING_INTERVAL) seconds, the overrun loop and timer++ never wrap
\* the 8-bit counter; every iteration starts with timer equal to the seconds
\* elapsed since the last reset (or since setup); and the iteration that
\* starts with READING_INTERVAL seconds or more elapsed is the one that
\* samples, no iteration before it doing so
\* ------------------------------------------------------------------------
ProcessingBound == (Uint8 - READING_INTERVAL) * 1000

C22_NoWrapWithinBound ==
    [][ /\ (pc = "pace" /\ pc' = "loop_top" /\ ValU32(milli_timer) < ProcessingBound) =>
              timer' = timer + ValU32(milli_timer) \div 1000 + 1
        /\ pc' = "loop_top" => timer' * 1000 = gap_ms'
        /\ (pc = "loop_top" /\ gap_ms >= READING_INTERVAL * 1000) =>
              /\ pc' = "take"
              /\ fired' = fired + 1
              /\ timer' = 0
        /\ (pc = "loop_top" /\ gap_ms < READING_INTERVAL * 1000) =>
              /\ pc' = "measure"
              /\ fired' = fired
              /\ timer' = timer
      ]_vars

\* an iteration that began with timer = 59 and took 195199 ms has ended:
\* the counter stands at 255, the 255 s that have passed
C22_Witness == pc = "loop_top" /\ timer = Uint8 - 1 /\ gap_ms = (Uint8 - 1) * 1000 /\ fired = 0

\* ------------------------------------------------------------------------
\* C23: a call of take_reading whose NUM_SAMPLES reads sum to
\* NUM_SAMPLES * 1023 / 2 (raw mean 511.5) leaves exactly the series
\* resistance, 10000 ohm, in latest_resistance; a raw mean strictly between 0
\* and 1023 gives a finite positive resistance; and of two such raw means
\* the larger gives the strictly larger resistance, both between the
\* channels read in a cycle and between a channel's successive readings, and
\* for every pair of neighbouring sums the converter can deliver
\* ------------------------------------------------------------------------
FullScaleSum == ADC_FULL_SCALE * NUM_SAMPLES

\* a < b for finite fractions with positive denominators
FracLess(a, b) ==
    \/ a.num \div a.den < b.num \div b.den
    \/ /\ a.num \div a.den = b.num \div b.den
       /\ (a.num % a.den) * b.den < (b.num % b.den) * a.den

InsideScale(sum) == 0 < sum /\ sum < FullScaleSum

C23_DividerBalancedAndMonotone ==
    [][ pc = "take" =>
          LET s == sample_sum'[z]
              r == latest_resistance'[z]
          IN  /\ 2 * s = FullScaleSum => r = Frac(THERMISTOR_SERIES_RES, 1)
              /\ InsideScale(s) => (r.num > 0 /\ r.den > 0)
              /\ \A c \in Channels :
                    (InsideScale(s) /\ InsideScale(sample_sum[c]) /\ sample_sum[c] < s)
                        => FracLess(latest_resistance[c], r)
              /\ \A c \in Channels :
                    (InsideScale(s) /\ InsideScale(sample_sum[c]) /\ s < sample_sum[c])
                        => FracLess(r, latest_resistance[c])
              /\ (z = 0 /\ fired = 1) =>
                    \A a \in 1..(FullScaleSum - 2) : FracLess(Resistance(a), Resistance(a + 1))
      ]_vars

\* the second cycle has read channel 1 at half scale, giving 10000 ohm,
\* with channel 0 next to zero and channel 2 next to full scale
C23_Witness ==
    /\ pc = "save" /\ fired = 2
    /\ 2 * sample_sum[1] = FullScaleSum
    /\ latest_resistance[1] = [num |-> THERMISTOR_SERIES_RES, den |-> 1]
    /\ sample_sum[0] = 1
    /\ sample_sum[2] = FullScaleSum - 1

\* ========================================================================
\* The early revision of the firmware (src/unnamed/part_000): one unsigned
\* temperature that nothing measures yet, a reading every pass of loop, no
\* flush. It shares the variables; those it does not have keep their values
\* ========================================================================
\* "log_file_000.txt"
EarlyLogTemplate == <<108, 111, 103, 95, 102, 105, 108, 101, 95, 48, 48, 48, 46, 116, 120, 116>>
\* "data_file_000.csv"
EarlyDataTemplate == <<100, 97, 116, 97, 95, 102, 105, 108, 101, 95, 48, 48, 48, 46, 99, 115, 118>>

\* name[6] = i / 100 + 32; name[7] = i / 10 + 32; name[8] = i % 10 + 32
\* (C indices 6..8 are positions 7..9 here)
EarlySlotName(template, idx) == [template EXCEPT ![7] = ((idx \div 100) + 32) % 256, ![8] = ((idx \div 10) + 32) % 256, ![9] = ((idx % 10) + 32) % 256]

\* the literal "Timestamp,Temperature" of setup, by its fields
EarlyHeaderText == <<Txt("Timestamp"), Comma, Txt("Temperature")>>

\* sprintf(data_file_entry_buffer, "%u,%s", latest_temperature,
\* formatted_timestamp) and the println of the buffer
EarlyNumber(n) == [k |-> "num", v |-> n]
EarlyDataRow(temperature, ts) == <<EarlyNumber(temperature), Comma, ts, NL>>

\* update_formatted_timestamp(): sprintf of the fields of now
EarlyFormatTimestamp(t) == [k |-> "ts", v |-> t]

\* log(msg, with_newline): the file part is guarded by if (!log_file), and
\* print on a File that is not open writes nothing
EarlyLog(st, msg, with_newline) ==
    LET begun == IF SERIAL_LOGGING /\ ~st.started THEN st.out \o <<NL>> ELSE st.out
    IN  [out |-> IF SERIAL_LOGGING THEN begun \o Printed(msg, with_newline) ELSE st.out,
         started |-> IF SERIAL_LOGGING THEN TRUE ELSE st.started,
         lf |-> IF FILE_LOGGING /\ ~st.lf.valid THEN FilePrint(st.lf, Printed(msg, with_newline)) ELSE st.lf]

\* log_error(msg): log, while (true);
EarlyLogError(st, msg) ==
    /\ SetLog(EarlyLog(st, msg, TRUE))
    /\ pc' = "halt"

\* cards: empty, or holding the files of slots 0 (log) and 0, 1 (data)
EarlyMedia ==
    { <<>>,
      [n \in {EarlySlotName(EarlyLogTemplate, 0), EarlySlotName(EarlyDataTemplate, 0), EarlySlotName(EarlyDataTemplate, 1)} |-> OldContent] }

EarlyInit ==
    /\ build \in Builds
    /\ medium \in EarlyMedia
    /\ log_file = NoFile
    /\ data_file = NoFile
    /\ pc = "sd_begin"
    /\ i = 0
    /\ z = 0
    /\ timer = 0
    /\ milli_timer = U32(0)
    /\ uptime = U32(0)
    /\ now = 0
    /\ formatted_timestamp = Txt("0000-00-00T00:00:00")
    /\ temperature_string = [c \in Channels |-> Txt("")]
    /\ latest_resistance = [c \in Channels |-> Zero]
    /\ sample_sum = [c \in Channels |-> 0]
    /\ latest_temperature = 0
    /\ serial_logging_started = FALSE
    /\ serial_out = <<>>
    /\ serial_in = <<>>
    /\ entry_field = 0
    /\ millis = U32(0)
    /\ runs = 1
    /\ created = {}
    /\ used_data = <<>>
    /\ cycles = 0
    /\ fired = 0
    /\ gap_ms = 0
    /\ last_gap_ms = 0
    /\ iter_ms = 0

\* what no function of the early revision assigns
EarlyFrame == UNCHANGED <<build, z, timer, milli_timer, uptime, temperature_string, latest_resistance, sample_sum, latest_temperature, serial_in, entry_field, runs, used_data, fired, last_gap_ms>>

\* INITIALIZE SD CARD
EarlySdBegin ==
    /\ pc = "sd_begin"
    /\ \E ok \in Outcomes :
        LET st == EarlyLog(LogState, Txt("Initializing SD card... "), FALSE)
        IN  IF ~ok
            THEN EarlyLogError(st, Txt("Failed."))
            ELSE /\ SetLog(EarlyLog(st, Txt("Done."), TRUE))
                 /\ pc' = IF FILE_LOGGING THEN "log_setup" ELSE "rtc_begin"
    /\ EarlyFrame
    /\ UNCHANGED <<medium, data_file, i, now, formatted_timestamp, millis, created, cycles, gap_ms, iter_ms>>

\* SET UP LOG FILE: the message, then i = 0 of the for loop
EarlyLogSetup ==
    /\ pc = "log_setup"
    /\ SetLog(EarlyLog(LogState, Txt("Creating log file... "), FALSE))
    /\ i' = 0
    /\ pc' = "log_scan"
    /\ EarlyFrame
    /\ UNCHANGED <<medium, data_file, now, formatted_timestamp, millis, created, cycles, gap_ms, iter_ms>>

\* one pass of for (i = 0; i < MAX_LOG_FILES; i++), then
\* if (log_file) log("Done.") else log_error("Failed.")
EarlyLogScan ==
    /\ pc = "log_scan"
    /\ IF i < MAX_LOG_FILES /\ SdExists(medium, EarlySlotName(EarlyLogTemplate, i))
       THEN /\ i' = i + 1
            /\ UNCHANGED <<medium, log_file, serial_out, serial_logging_started, pc, created>>
       ELSE \E ok \in Outcomes :
            LET opened == i < MAX_LOG_FILES /\ ok
                name == EarlySlotName(EarlyLogTemplate, i)
                st == IF opened THEN [LogState EXCEPT !.lf = OpenedFile(name)] ELSE LogState
            IN  /\ i' = i
                /\ medium' = IF opened THEN MediumAfterOpen(medium, name) ELSE medium
                /\ created' = created \cup (DOMAIN medium' \ DOMAIN medium)
                /\ IF st.lf.valid
                   THEN /\ SetLog(EarlyLog(st, Txt("Done."), TRUE))
                        /\ pc' = "rtc_begin"
                   ELSE EarlyLogError(st, Txt("Failed."))
    /\ EarlyFrame
    /\ UNCHANGED <<data_file, now, formatted_timestamp, millis, cycles, gap_ms, iter_ms>>

\* SET UP RTC
EarlyRtcBegin ==
    /\ pc = "rtc_begin"
    /\ \E ok \in Outcomes :
        LET st == EarlyLog(LogState, Txt("Initializing RTC..."), FALSE)
        IN  IF ~ok
            THEN EarlyLogError(st, Txt("Failed."))
            ELSE /\ SetLog(EarlyLog(st, Txt("Done."), TRUE))
                 /\ pc' = "data_setup"
    /\ EarlyFrame
    /\ UNCHANGED <<medium, data_file, i, now, formatted_timestamp, millis, created, cycles, gap_ms, iter_ms>>

\* SET UP DATA FILE: the message, then i = 0 of the for loop
EarlyDataSetup ==
    /\ pc = "data_setup"
    /\ SetLog(EarlyLog(LogState, Txt("Creating data file..."), TRUE))
    /\ i' = 0
    /\ pc' = "data_scan"
    /\ EarlyFrame
    /\ UNCHANGED <<medium, data_file, now, formatted_timestamp, millis, created, cycles, gap_ms, iter_ms>>

\* one pass of for (i = 0; i < MAX_DATA_FILES; i++), then
\* if (data_file) log("Done.") else log_error("Failed.")
EarlyDataScan ==
    /\ pc = "data_scan"
    /\ IF i < MAX_DATA_FILES /\ SdExists(medium, EarlySlotName(EarlyDataTemplate, i))
       THEN /\ i' = i + 1
            /\ UNCHANGED <<medium, log_file, data_file, serial_out, serial_logging_started, pc, created>>
       ELSE \E ok \in Outcomes :
            LET opened == i < MAX_DATA_FILES /\ ok
                name == EarlySlotName(EarlyDataTemplate, i)
            IN  /\ i' = i
                /\ medium' = IF opened THEN MediumAfterOpen(medium, name) ELSE medium
                /\ created' = created \cup (DOMAIN medium' \ DOMAIN medium)
                /\ data_file' = IF opened THEN OpenedFile(name) ELSE data_file
                /\ IF data_file'.valid
                   THEN /\ SetLog(EarlyLog(LogState, Txt("Done."), TRUE))
                        /\ pc' = "header"
                   ELSE EarlyLogError(LogState, Txt("Failed."))
    /\ EarlyFrame
    /\ UNCHANGED <<now, formatted_timestamp, millis, cycles, gap_ms, iter_ms>>

\* PRINT DATA FILE CSV HEADERS
EarlyWriteHeader ==
    /\ pc = "header"
    /\ data_file' = FilePrint(data_file, EarlyHeaderText \o <<NL>>)
    /\ pc' = "started"
    /\ EarlyFrame
    /\ UNCHANGED <<medium, log_file, i, now, formatted_timestamp, serial_logging_started, serial_out, millis, created, cycles, gap_ms, iter_ms>>

\* Finished everything: now = rtc.now(), update_formatted_timestamp(), the
\* start message
EarlyFinishSetup(times) ==
    /\ pc = "started"
    /\ \E t \in times :
        LET st == EarlyLog(LogState, Txt("Data logger started at "), FALSE)
        IN  /\ now' = t
            /\ formatted_timestamp' = EarlyFormatTimestamp(t)
            /\ SetLog(EarlyLog(st, EarlyFormatTimestamp(t), TRUE))
    /\ pc' = "take"
    /\ EarlyFrame
    /\ UNCHANGED <<medium, data_file, i, millis, created, cycles, gap_ms, iter_ms>>

\* take_reading(): now = rtc.now()
EarlyTakeReading(times) ==
    /\ pc = "take"
    /\ cycles < MaxIterations
    /\ \E t \in {u \in times : u >= now} : now' = t
    /\ pc' = "save"
    /\ EarlyFrame
    /\ UNCHANGED <<medium, log_file, data_file, i, formatted_timestamp, serial_logging_started, serial_out, millis, created, cycles, gap_ms, iter_ms>>

\* save_reading_to_card()
EarlySaveReading ==
    /\ pc = "save"
    /\ IF FileBool(data_file)
       THEN /\ formatted_timestamp' = EarlyFormatTimestamp(now)
            /\ data_file' = FilePrint(data_file, EarlyDataRow(latest_temperature, EarlyFormatTimestamp(now)))
       ELSE UNCHANGED <<formatted_timestamp, data_file>>
    /\ pc' = "delay"
    /\ EarlyFrame
    /\ UNCHANGED <<medium, log_file, i, now, serial_logging_started, serial_out, millis, created, cycles, gap_ms, iter_ms>>

\* delay(1000), the end of loop()
EarlyDelay ==
    /\ pc = "delay"
    /\ Elapse(1000)
    /\ cycles' = cycles + 1
    /\ pc' = "take"
    /\ EarlyFrame
    /\ UNCHANGED <<medium, log_file, data_file, i, now, formatted_timestamp, serial_logging_started, serial_out, created>>

NextEarly ==
    \/ EarlySdBegin
    \/ EarlyLogSetup
    \/ EarlyLogScan
    \/ EarlyRtcBegin
    \/ EarlyDataSetup
    \/ EarlyDataScan
    \/ EarlyWriteHeader
    \/ EarlyFinishSetup(AnyTime)
    \/ EarlyTakeReading(AnyTime)
    \/ EarlySaveReading
    \/ EarlyDelay

\* the early revision in every build
SpecEarly == EarlyInit /\ [][NextEarly]_vars

\* ------------------------------------------------------------------------
\* C24: in the early revision every step appends to the log file, when
\* FILE_LOGGING is enabled and the handle is valid, the messages it logs
\* (those the console gains, after the empty line that opens the console;
\* the two messages of the RTC step whatever the console does), and leaves
\* every file as it is when the handle is invalid
\* ------------------------------------------------------------------------
C24_EarlyLogAppendsWhenValid ==
    [][ LET c == Added(serial_out, serial_out')
            m == IF ~serial_logging_started /\ Len(c) > 0 THEN Tail(c) ELSE c
            f == Added(LogWritten(log_file, medium), LogWritten(log_file', medium'))
        IN  /\ (SERIAL_LOGGING /\ FILE_LOGGING /\ log_file'.valid) => SameLine(f, m)
            /\ (FILE_LOGGING /\ log_file.valid /\ pc = "rtc_begin") =>
                  \E r \in {"Done.", "Failed."} : SameLine(f, <<Txt("Initializing RTC..."), Txt(r), NL>>)
            /\ ~log_file'.valid =>
                  /\ log_file' = NoFile
                  /\ \A n \in DOMAIN medium : medium'[n] = medium[n]
      ]_vars

\* ------------------------------------------------------------------------
\* C25: in the early revision the data file begins with the header
\* Timestamp,Temperature and every line after it has two fields, the
\* timestamp first and the temperature second
\* ------------------------------------------------------------------------
EarlyDataWritten == IF data_file.valid THEN medium[data_file.name] \o data_file.buf ELSE <<>>

C25_EarlyFieldsInHeaderOrder ==
    \A j \in 1..LineCount(EarlyDataWritten) :
        LET line == LineOf(EarlyDataWritten, j)
        IN  /\ IsCsvLine(line)
            /\ FieldCount(line) = 2
            /\ j = 1 => SameLine(line, EarlyHeaderText)
            /\ j > 1 => (FieldOf(line, 1).k = "ts" /\ FieldOf(line, 2).k = "num")

====
